---- MODULE Spec2Model ----
(***************************************************************************)
(* Model of the two request handlers of the learning-platform API:         *)
(*   - the chat handler (src/api/chat/route.ts) with its process-wide      *)
(*     session map conversationHistories, and                              *)
(*   - the lesson upsert handler (src/unnamed/part_001).                   *)
(*                                                                         *)
(* Both handlers are async functions run by a single-threaded event loop:  *)
(* the code between two awaits runs without interruption, and handlers of  *)
(* different requests interleave at the awaits.  Each action below is one  *)
(* such uninterrupted stretch of a handler.                                *)
(*                                                                         *)
(* A JSON object is a record; a field that is absent from the JSON is      *)
(* absent from the record's DOMAIN.                                        *)
(***************************************************************************)
EXTENDS Integers, Sequences, FiniteSets, Bags, TLC

VARIABLES
    conversationHistories,  \* route.ts:59  the Map userId -> ChatSession (0: no entry)
    sessions,               \* the live ChatSession objects, by object identity
    inflight,               \* the bag of chat handler frames suspended at an await
    sent,                   \* the chat response the latest step sent, if it sent one
    constructed,            \* per userId, the sessions constructed for it so far
    answered,               \* per userId, the 200 responses sent to it so far
    up,                     \* the upsert request in flight
    vectors,                \* records of the Pinecone namespace 'ns1', by id
    uuidCount,              \* number of ids uuidv4() has generated
    clock                   \* the wall clock new Date() reads

chatVars == <<conversationHistories, sessions, inflight, sent, constructed, answered>>
upsertVars == <<up, vectors, uuidCount, clock>>
vars == <<conversationHistories, sessions, inflight, sent, constructed, answered,
          up, vectors, uuidCount, clock>>

----------------------------------------------------------------------------
(* Bounds of the model *)

\* chat turns (completed or in flight) in a run of Spec
MaxRequests == 2
\* chat turns in a run of SpecSeq (one handler at a time)
MaxTurns == 11
\* chat turns in a run of SpecOverlap (one userId, overlapping handlers)
MaxOverlapTurns == 7
\* upsert requests received in a run of SpecUpsert
MaxUpserts == 2

----------------------------------------------------------------------------
(* JavaScript values *)

\* the value undefined of a local variable that may hold an object
Undefined == [undefined |-> TRUE]

\* obj.key, with a default for an absent key (destructuring default, a || b on objects)
Get(obj, key, default) == IF key \in DOMAIN obj THEN obj[key] ELSE default

Has(obj, key) == key \in DOMAIN obj

\* array.slice(-n)
SliceLast(arr, n) ==
    IF Len(arr) <= n THEN arr ELSE SubSeq(arr, Len(arr) - n + 1, Len(arr))

\* array.slice(0, n): the first n elements
SliceFirst(arr, n) ==
    IF Len(arr) <= n THEN arr ELSE SubSeq(arr, 1, n)

----------------------------------------------------------------------------
(* Chat handler: POST of src/api/chat/route.ts *)

DefaultUser == "default-user"
Fallback == "I couldn't generate a response. Please try again."

\* history length kept by the trim at route.ts:118-119
HistoryLimit == 10

UserKeys == {DefaultUser, "u1"}

\* the handlers that run at once where requests overlap
Handlers == {"h1", "h2"}

\* messages arrays that pass both validations of route.ts:71-79
ValidMessageLists ==
    { <<[role |-> "user", content |-> "first"],
        [role |-> "assistant", content |-> "reply"],
        [role |-> "user", content |-> "more"]>> }

\* messages arrays that fail one of them
InvalidMessageLists ==
    { << >>,
      <<[role |-> "user"]>>,
      <<[role |-> "user", content |-> ""]>>,
      <<[role |-> "user", content |-> "first"], [role |-> "user"]>> }

LessonIdLists == { << >>, <<"1001">>, <<"1001", "1002">> }

\* the userId of a request body: absent ("" here), or given
UserIdInputs == {"", "u1"}
WithUser(b, u) == IF u = "" THEN b ELSE b @@ [userId |-> u]

\* request bodies: a valid messages array with every combination of userId
\* and lessonIds (absent, empty or not), and with the default userId spelled
\* out; an invalid or absent messages array, with and without lessonIds
Bodies ==
    { WithUser([messages |-> m], u) : m \in ValidMessageLists, u \in UserIdInputs }
    \cup { WithUser([messages |-> m, lessonIds |-> l], u) :
             m \in ValidMessageLists, l \in LessonIdLists, u \in UserIdInputs }
    \cup { [messages |-> m, userId |-> DefaultUser] : m \in ValidMessageLists }
    \cup { [messages |-> m, lessonIds |-> <<"1001">>] : m \in InvalidMessageLists }
    \cup { [lessonIds |-> <<"1001">>], [messages |-> << >>] }

\* the bodies of the turns of one userId, the default one
OneUserBodies == { b \in Bodies : ~Has(b, "userId") }

\* route.ts:71  !messages || !messages.length is false
HasMessages(body) == Has(body, "messages") /\ Len(body.messages) > 0

\* route.ts:76
LatestMessage(messages) == messages[Len(messages)]

\* a plausible slip: the content check is dropped
HasContentUnchecked(latestMessage) == TRUE

\* route.ts:77  !latestMessage || !latestMessage.content is false
HasContent(latestMessage) ==
    Has(latestMessage, "content") /\ latestMessage.content # ""

\* route.ts:89-91
MetadataFilter(lessonIds) ==
    IF Len(lessonIds) > 0 THEN [id |-> [in |-> lessonIds]] ELSE Undefined

\* route.ts:149-240  the session createNewUserSession returns: its retriever
\* is built with the filter (line 169), its history is empty (line 238);
\* pushed counts the messages ever pushed to chatHistory
createNewUserSession(metadataFilter) ==
    [chatHistory |-> << >>, filter |-> metadataFilter, pushed |-> 0]

\* a plausible slip: the filter is assigned also when it is undefined
updateAlways(userSession, metadataFilter) ==
    [userSession EXCEPT !.filter = metadataFilter]

\* route.ts:248-266  the tool named "fusion360_search" is the one tool of the
\* executor (line 231) and holds the retriever (line 173)
updateExistingSessionFilters(userSession, metadataFilter) ==
    IF metadataFilter = Undefined
    THEN userSession
    ELSE [userSession EXCEPT !.filter = metadataFilter]

\* a plausible slip: result.output ?? fallback, which keeps an empty output
ResponseTextEmptyKept(result) ==
    IF Has(result, "output") THEN result.output ELSE Fallback

\* route.ts:111  result.output || fallback
ResponseText(result) ==
    IF Has(result, "output") /\ result.output # "" THEN result.output ELSE Fallback

\* a message object of the history; pos is its position in the sequence of
\* all messages ever pushed to the session
HumanMessage(content, pos) == [type |-> "human", content |-> content, pos |-> pos]
AIMessage(content, pos) == [type |-> "ai", content |-> content, pos |-> pos]

\* a plausible slip: slice(0, 10) keeps the oldest messages
LimitHistoryOldest(chatHistory) == SliceFirst(chatHistory, HistoryLimit)

\* a plausible slip: the history is trimmed to one pair more
LimitHistoryLonger(chatHistory) == SliceLast(chatHistory, HistoryLimit + 2)

\* a plausible slip: the trim keeps one message less
LimitHistoryOdd(chatHistory) ==
    IF Len(chatHistory) > HistoryLimit
    THEN SliceLast(chatHistory, HistoryLimit - 1)
    ELSE chatHistory

\* route.ts:118-120
LimitHistory(chatHistory) ==
    IF Len(chatHistory) > HistoryLimit
    THEN SliceLast(chatHistory, HistoryLimit)
    ELSE chatHistory

\* a plausible slip: the two pushes are swapped
RecordTurnAssistantFirst(userSession, userMessage, responseText) ==
    [userSession EXCEPT
        !.chatHistory = LimitHistory(
            Append(Append(@, AIMessage(responseText, userSession.pushed + 1)),
                   HumanMessage(userMessage, userSession.pushed + 2))),
        !.pushed = @ + 2]

\* route.ts:114-120  the two pushes and the trim
RecordTurn(userSession, userMessage, responseText) ==
    [userSession EXCEPT
        !.chatHistory = LimitHistory(
            Append(Append(@, HumanMessage(userMessage, userSession.pushed + 1)),
                   AIMessage(responseText, userSession.pushed + 2))),
        !.pushed = @ + 2]

\* route.ts:126  result.intermediateSteps?.length > 0
UsedRetrieval(result) == Get(result, "intermediateSteps", 0) > 0

\* a plausible slip: the debug object reports the filter the session holds
OkBodySessionFilter(responseText, result, metadataFilter, userSession) ==
    [response |-> responseText,
     debug |-> IF userSession.filter = Undefined
               THEN [usedRetrieval |-> UsedRetrieval(result)]
               ELSE [usedRetrieval |-> UsedRetrieval(result),
                     appliedFilter |-> userSession.filter]]

\* route.ts:123-129  JSON.stringify leaves out a key whose value is undefined
OkBody(responseText, result, metadataFilter, userSession) ==
    [response |-> responseText,
     debug |-> IF metadataFilter = Undefined
               THEN [usedRetrieval |-> UsedRetrieval(result)]
               ELSE [usedRetrieval |-> UsedRetrieval(result),
                     appliedFilter |-> metadataFilter]]

\* what agentExecutor.invoke can resolve to
AgentResults ==
    { [output |-> "ok", intermediateSteps |-> 1],
      [output |-> "", intermediateSteps |-> 0],
      [intermediateSteps |-> 0] }

\* a plausible slip: the map is never consulted
LookupNothing(userId) == 0

\* a plausible slip: every request is looked up under the default key
LookupShared(userId) == conversationHistories[DefaultUser]

\* route.ts:85  conversationHistories.get(userId)
Lookup(userId) == conversationHistories[userId]

\* the suspended handlers
Frames == BagToSet(inflight)
Suspend(frame) == inflight (+) SetToBag({frame})
Resume(frame) == inflight (-) SetToBag({frame})

\* the ChatSession objects a Map entry or a suspended handler refers to; the
\* others are garbage, which nothing can observe
Live(heap, map, frames) ==
    [s \in DOMAIN heap \cap ({map[u] : u \in DOMAIN map}
                              \cup {f.userSession : f \in BagToSet(frames)})
       |-> heap[s]]

\* the identity of the next object allocated
NewObject == CHOOSE s \in 1..(Cardinality(DOMAIN sessions) + 1) :
                 /\ s \notin DOMAIN sessions
                 /\ \A t \in 1..(s - 1) : t \in DOMAIN sessions

RECURSIVE Sum(_, _)
Sum(f, S) ==
    IF S = {} THEN 0
    ELSE LET x == CHOOSE y \in S : TRUE IN f[x] + Sum(f, S \ {x})

\* chat turns answered or in flight
Turns == Sum(answered, DOMAIN answered) + BagCardinality(inflight)

\* no response sent
NoResponse == [status |-> 0]

\* route.ts:72, 78  the 400 responses
Rejected(body, error) ==
    [status |-> 400, response |-> [error |-> error], invokes |-> 0, pushes |-> 0]
        @@ (IF Has(body, "messages") THEN [messages |-> body.messages]
                                     ELSE [x \in {} |-> 0])

\* route.ts:66-108  from the arrival of the request to its first await on a
\* collaborator: validation, session lookup, filter, and either the start of
\* createNewUserSession or the filter update and the call of the agent.
\* limit and width bound the run: turns, and handlers suspended at once.
\* The suspended frame holds the handler's locals; named records whether the
\* body gave a userId
Start(body, limit, width) ==
    /\ BagCardinality(inflight) < width
    /\ Turns < limit
    /\ UNCHANGED <<conversationHistories, constructed, answered, upsertVars>>
    /\ IF ~HasMessages(body)
       THEN /\ sent' = Rejected(body, "No messages found")
            /\ UNCHANGED <<sessions, inflight>>
       ELSE IF ~HasContent(LatestMessage(body.messages))
       THEN /\ sent' = Rejected(body, "Invalid message format")
            /\ UNCHANGED <<sessions, inflight>>
       ELSE LET userId == Get(body, "userId", DefaultUser)
                lessonIds == Get(body, "lessonIds", << >>)
                userMessage == Get(LatestMessage(body.messages), "content", "undefined")
                userSession == Lookup(userId)
                metadataFilter == MetadataFilter(lessonIds)
                frame == [messages |-> body.messages, userId |-> userId,
                          named |-> Has(body, "userId"),
                          lessonIds |-> lessonIds, userMessage |-> userMessage,
                          metadataFilter |-> metadataFilter]
            IN  /\ sent' = NoResponse
                /\ IF userSession = 0
                   THEN /\ inflight' = Suspend(frame @@
                              [pc |-> "creating", userSession |-> 0, invokes |-> 0])
                        /\ UNCHANGED sessions
                   ELSE /\ sessions' = [sessions EXCEPT ![userSession] =
                              updateExistingSessionFilters(@, metadataFilter)]
                        /\ inflight' = Suspend(frame @@
                              [pc |-> "invoking", userSession |-> userSession,
                               invokes |-> 1])

\* route.ts:97-108  createNewUserSession resolved: the session is stored
\* under the userId and the agent is called with its history
SessionCreated(f) ==
    /\ f \in Frames
    /\ f.pc = "creating"
    /\ conversationHistories' =
          [conversationHistories EXCEPT ![f.userId] = NewObject]
    /\ inflight' = Resume(f) (+) SetToBag({
          [f EXCEPT !.pc = "invoking", !.userSession = NewObject,
                    !.invokes = 1] })
    /\ sessions' = Live(sessions @@ (NewObject :> createNewUserSession(f.metadataFilter)),
                        conversationHistories', inflight')
    /\ sent' = NoResponse
    /\ constructed' = [constructed EXCEPT ![f.userId] = @ + 1]
    /\ UNCHANGED <<answered, upsertVars>>

\* route.ts:131-139  the 500 response of the catch block
ErrorResponse(f, pushes) ==
    [status |-> 500,
     response |-> [error |-> "There was an error processing your request"],
     messages |-> f.messages, lessonIds |-> f.lessonIds,
     invokes |-> f.invokes, pushes |-> pushes]

\* route.ts:97, 131-139  createNewUserSession rejected
SessionCreateFailed(f) ==
    /\ f \in Frames
    /\ f.pc = "creating"
    /\ inflight' = Resume(f)
    /\ sent' = ErrorResponse(f, 0)
    /\ UNCHANGED <<conversationHistories, sessions, constructed, answered, upsertVars>>

\* a plausible slip: after the await the session is looked up again in the
\* map, and the turn is recorded in the stored one
AgentReturnedToStored(f, result) ==
    /\ f \in Frames
    /\ f.pc = "invoking"
    /\ LET responseText == ResponseText(result)
           stored == conversationHistories[f.userId]
       IN  /\ sessions' = Live([sessions EXCEPT ![stored] =
                                  RecordTurn(@, f.userMessage, responseText)],
                               conversationHistories, Resume(f))
           /\ sent' = [status |-> 200,
                       response |-> OkBody(responseText, result, f.metadataFilter,
                                           sessions[stored]),
                       messages |-> f.messages, lessonIds |-> f.lessonIds,
                       result |-> result,
                       invokes |-> f.invokes, pushes |-> 2]
    /\ inflight' = Resume(f)
    /\ answered' = [answered EXCEPT ![f.userId] = @ + 1]
    /\ UNCHANGED <<conversationHistories, constructed, upsertVars>>

\* route.ts:110-129  the agent resolved with result (kept with the response
\* sent, to tell what the agent had returned)
AgentReturned(f, result) ==
    /\ f \in Frames
    /\ f.pc = "invoking"
    /\ LET responseText == ResponseText(result)
       IN  /\ sessions' = Live([sessions EXCEPT ![f.userSession] =
                                  RecordTurn(@, f.userMessage, responseText)],
                               conversationHistories, Resume(f))
           /\ sent' = [status |-> 200,
                       response |-> OkBody(responseText, result, f.metadataFilter,
                                           sessions[f.userSession]),
                       messages |-> f.messages, lessonIds |-> f.lessonIds,
                       result |-> result,
                       invokes |-> f.invokes, pushes |-> 2]
    /\ inflight' = Resume(f)
    /\ answered' = [answered EXCEPT ![f.userId] = @ + 1]
    /\ UNCHANGED <<conversationHistories, constructed, upsertVars>>

\* a plausible slip: the user message is recorded before the agent is
\* called, and stays although the agent failed
AgentFailedRecorded(f) ==
    /\ f \in Frames
    /\ f.pc = "invoking"
    /\ sessions' = Live([sessions EXCEPT ![f.userSession].chatHistory =
                           Append(@, HumanMessage(f.userMessage, 0))],
                        conversationHistories, Resume(f))
    /\ inflight' = Resume(f)
    /\ sent' = ErrorResponse(f, 1)
    /\ UNCHANGED <<conversationHistories, constructed, answered, upsertVars>>

\* a plausible slip: a session whose agent failed is dropped from the map
AgentFailedEvicts(f) ==
    /\ f \in Frames
    /\ f.pc = "invoking"
    /\ conversationHistories' = [conversationHistories EXCEPT ![f.userId] = 0]
    /\ inflight' = Resume(f)
    /\ sent' = ErrorResponse(f, 0)
    /\ sessions' = Live(sessions, conversationHistories', inflight')
    /\ UNCHANGED <<constructed, answered, upsertVars>>

\* route.ts:105, 131-139  the agent rejected
AgentFailed(f) ==
    /\ f \in Frames
    /\ f.pc = "invoking"
    /\ inflight' = Resume(f)
    /\ sent' = ErrorResponse(f, 0)
    /\ sessions' = Live(sessions, conversationHistories, inflight')
    /\ UNCHANGED <<conversationHistories, constructed, answered, upsertVars>>


----------------------------------------------------------------------------
(* Upsert handler: POST of src/unnamed/part_001 *)

\* A JSON string or number is a record tagged with its typeof: an id is
\* [t |-> "string", s |-> "1011"] or [t |-> "number", n |-> 1011]; a content
\* string carries its characters, [t |-> "string", s |-> <<"a", " ", "b">>].
Str(s) == [t |-> "string", s |-> s]
Num(n) == [t |-> "number", n |-> n]

\* !v for a string or a number
Falsy(v) == (v.t = "string" /\ Len(v.s) = 0) \/ (v.t = "number" /\ v.n = 0)

Digit == [d \in 0..9 |->
            <<"0", "1", "2", "3", "4", "5", "6", "7", "8", "9">>[d + 1]]

\* Number.prototype.toString of an integer
RECURSIVE NatToString(_)
NatToString(n) ==
    IF n < 10 THEN Digit[n] ELSE NatToString(n \div 10) \o Digit[n % 10]
NumToString(n) == IF n < 0 THEN "-" \o NatToString(-n) ELSE NatToString(n)

\* the characters \s matches
IsSpace(c) == c \in {" ", "\n"}

RECURSIVE DropLeadingSpaces(_)
DropLeadingSpaces(t) ==
    IF t # << >> /\ IsSpace(Head(t)) THEN DropLeadingSpaces(Tail(t)) ELSE t

\* part_001:34  text.replace(/\s\s+/g, ' '): a run of two or more whitespace
\* characters becomes one space; a single whitespace character stays
RECURSIVE CollapseSpaces(_)
CollapseSpaces(t) ==
    IF t = << >> THEN << >>
    ELSE IF IsSpace(Head(t)) /\ Len(t) > 1 /\ IsSpace(t[2])
         THEN <<" ">> \o CollapseSpaces(DropLeadingSpaces(t))
         ELSE <<Head(t)>> \o CollapseSpaces(Tail(t))

Reverse(t) == [i \in 1..Len(t) |-> t[Len(t) + 1 - i]]

\* String.prototype.trim
Trim(t) == Reverse(DropLeadingSpaces(Reverse(DropLeadingSpaces(t))))

\* part_001:34
CleanText(t) == Trim(CollapseSpaces(t))

\* a plausible slip: only the type of content is checked, not its emptiness
ValidContentPresent(body) ==
    Has(body, "content") /\ body.content.t = "string"

\* part_001:68  !content || typeof content !== 'string' is false
ValidContent(body) ==
    /\ Has(body, "content")
    /\ ~Falsy(body.content)
    /\ body.content.t = "string"

\* uuid v4: the n-th generated id, different from every other one
uuidv4(n) == "uuid-" \o NatToString(n)

\* part_001:78  lessonData.id || uuidv4()
UsesSuppliedId(body) == Has(body, "id") /\ ~Falsy(body.id)

\* part_001:78-81  the record ID
StringId(body, n) ==
    IF UsesSuppliedId(body)
    THEN IF body.id.t = "number" THEN NumToString(body.id.n) ELSE body.id.s
    ELSE uuidv4(n)

\* Date.prototype.toISOString of the time now
toISOString(now) == "T" \o NatToString(now)

\* part_001:87-91  { content, ...(metadata || {}), lastUpdated }: a later key
\* of the object literal replaces an earlier one of the same name
BuildMetadata(body, now) ==
    [lastUpdated |-> toISOString(now)]
        @@ Get(body, "metadata", [x \in {} |-> 0])
        @@ [content |-> body.content.s]

IdInputs == { Str("1011"), Num(1011), Num(0), Str("") }
ContentInputs ==
    { Str(<<"a", " ", " ", "b">>), Str(<<" ", "a", "\n">>), Str(<<" ", "\n">>),
      Str(<< >>), Num(42) }
MetadataInputs ==
    { [topic |-> "Main Topic"],
      [content |-> <<"x">>, topic |-> "Main Topic"],
      [lastUpdated |-> "caller"] }

\* upsert request bodies: every combination of an id, a content and a
\* metadata, each absent or given
UpsertBodies ==
    { b0 @@ b1 @@ b2 :
        b0 \in {[x \in {} |-> 0]} \cup {[id |-> i] : i \in IdInputs},
        b1 \in {[x \in {} |-> 0]} \cup {[content |-> c] : c \in ContentInputs},
        b2 \in {[x \in {} |-> 0]} \cup {[metadata |-> m] : m \in MetadataInputs} }

\* part_001:106-111  the 500 response of the catch block
UpsertError(n, body, embeds, writes) ==
    [pc |-> "done", n |-> n, body |-> body, embeds |-> embeds, writes |-> writes,
     status |-> 500,
     response |-> [error |-> "There was an error processing your request"]]

\* a plausible slip: the cleaned text is sent to the embedding collaborator
\* without the check that it is not empty
UpsertStartNoCleanCheck(body) ==
    /\ up.pc \in {"idle", "done"}
    /\ up.n < MaxUpserts
    /\ clock' = clock + 1
    /\ UNCHANGED <<vectors, uuidCount, chatVars>>
    /\ IF ~ValidContent(body)
       THEN up' = [pc |-> "done", n |-> up.n + 1, body |-> body,
                   embeds |-> 0, writes |-> 0, status |-> 400,
                   response |-> [error |-> "Invalid request: content field is required and must be a string."]]
       ELSE up' = [pc |-> "embedding", n |-> up.n + 1, body |-> body,
                   input |-> CleanText(body.content.s), embeds |-> 1, writes |-> 0]

\* part_001:62-75, 32-42  from the arrival of the request to the call of the
\* embedding collaborator
UpsertStart(body) ==
    /\ up.pc \in {"idle", "done"}
    /\ up.n < MaxUpserts
    /\ clock' = clock + 1
    /\ UNCHANGED <<vectors, uuidCount, chatVars>>
    /\ IF ~ValidContent(body)
       THEN up' = [pc |-> "done", n |-> up.n + 1, body |-> body,
                   embeds |-> 0, writes |-> 0, status |-> 400,
                   response |-> [error |-> "Invalid request: content field is required and must be a string."]]
       ELSE IF CleanText(body.content.s) = << >>
       THEN up' = UpsertError(up.n + 1, body, 0, 0)
       ELSE up' = [pc |-> "embedding", n |-> up.n + 1, body |-> body,
                   input |-> CleanText(body.content.s), embeds |-> 1, writes |-> 0]

\* part_001:43, 78-97  the embedding arrived: the record is built and the
\* write to the namespace is called
EmbeddingReturned ==
    /\ up.pc = "embedding"
    /\ LET usesSupplied == UsesSuppliedId(up.body)
           stringId == StringId(up.body, uuidCount + 1)
       IN  /\ uuidCount' = IF usesSupplied THEN uuidCount ELSE uuidCount + 1
           /\ up' = [pc |-> "upserting", n |-> up.n, body |-> up.body,
                      embeds |-> up.embeds, writes |-> 1,
                      vectorToUpsert |->
                          [id |-> stringId,
                           values |-> [embeddingOf |-> up.input],
                           metadata |-> BuildMetadata(up.body, clock)]]
    /\ clock' = clock + 1
    /\ UNCHANGED <<vectors, chatVars>>

\* part_001:44-47, 106-111  the embedding collaborator failed
EmbeddingFailed ==
    /\ up.pc = "embedding"
    /\ up' = UpsertError(up.n, up.body, up.embeds, 0)
    /\ clock' = clock + 1
    /\ UNCHANGED <<vectors, uuidCount, chatVars>>

\* part_001:97-104  the write succeeded
UpsertWritten ==
    /\ up.pc = "upserting"
    /\ vectors' = (up.vectorToUpsert.id :>
                      [values |-> up.vectorToUpsert.values,
                       metadata |-> up.vectorToUpsert.metadata]) @@ vectors
    /\ up' = [pc |-> "done", n |-> up.n, body |-> up.body,
               embeds |-> up.embeds, writes |-> up.writes, status |-> 200,
               response |-> [message |-> "Successfully upserted lesson with ID: "
                                           \o up.vectorToUpsert.id,
                             id |-> up.vectorToUpsert.id]]
    /\ clock' = clock + 1
    /\ UNCHANGED <<uuidCount, chatVars>>

\* part_001:97, 106-111  the write failed
UpsertFailed ==
    /\ up.pc = "upserting"
    /\ up' = UpsertError(up.n, up.body, up.embeds, up.writes)
    /\ clock' = clock + 1
    /\ UNCHANGED <<vectors, uuidCount, chatVars>>

----------------------------------------------------------------------------
(* Specifications *)

Init ==
    /\ conversationHistories = [u \in UserKeys |-> 0]
    /\ sessions = [s \in {} |-> Undefined]
    /\ inflight = EmptyBag
    /\ sent = NoResponse
    /\ constructed = [u \in UserKeys |-> 0]
    /\ answered = [u \in UserKeys |-> 0]
    /\ up = [pc |-> "idle", n |-> 0]
    /\ vectors = [i \in {} |-> Undefined]
    /\ uuidCount = 0
    /\ clock = 0

\* chat requests of two userIds whose handlers overlap
Next ==
    \/ \E body \in Bodies : Start(body, MaxRequests, Cardinality(Handlers))
    \/ \E f \in Frames : SessionCreated(f)
    \/ \E f \in Frames : SessionCreateFailed(f)
    \/ \E f \in Frames, result \in AgentResults : AgentReturned(f, result)
    \/ \E f \in Frames : AgentFailed(f)

Spec == Init /\ [][Next]_vars

\* the chat requests of one userId, each completed before the next starts
SeqNext ==
    \/ \E body \in OneUserBodies : Start(body, MaxTurns, 1)
    \/ \E f \in Frames : SessionCreated(f)
    \/ \E f \in Frames : SessionCreateFailed(f)
    \/ \E f \in Frames, result \in AgentResults : AgentReturned(f, result)
    \/ \E f \in Frames : AgentFailed(f)

SpecSeq == Init /\ [][SeqNext]_vars

\* the chat requests of one userId whose handlers overlap
OverlapNext ==
    \/ \E body \in OneUserBodies : Start(body, MaxOverlapTurns, Cardinality(Handlers))
    \/ \E f \in Frames : SessionCreated(f)
    \/ \E f \in Frames : SessionCreateFailed(f)
    \/ \E f \in Frames, result \in AgentResults : AgentReturned(f, result)
    \/ \E f \in Frames : AgentFailed(f)

SpecOverlap == Init /\ [][OverlapNext]_vars

\* upsert requests, one after another
UpsertNext ==
    \/ \E body \in UpsertBodies : UpsertStart(body)
    \/ EmbeddingReturned
    \/ EmbeddingFailed
    \/ UpsertWritten
    \/ UpsertFailed

SpecUpsert == Init /\ [][UpsertNext]_vars

----------------------------------------------------------------------------
(* Properties of the chat handler *)

Min(a, b) == IF a < b THEN a ELSE b

\* the handler frame that a step suspended (Start past validation), if any
StartedFrames ==
    { f \in BagToSet(inflight') : inflight' = inflight (+) SetToBag({f}) }

\* the handler frame that a step resumed and ended, if any
EndedFrames ==
    { f \in BagToSet(inflight) : inflight' = inflight (-) SetToBag({f}) }

\* C1: in every reachable state, also while handlers of the same userId
\* overlap, each session's history holds at most 10 messages, and the
\* messages it retains are the last ones of the sequence of all messages ever
\* pushed to it, in their order (only the oldest are dropped).
C1_HistoryCappedSuffix ==
    \A s \in DOMAIN sessions :
        LET h == sessions[s].chatHistory
        IN  /\ Len(h) <= 10
            /\ \A i \in 1..Len(h) : h[i].pos = sessions[s].pushed - Len(h) + i

\* a session that has been trimmed while another handler is suspended
C1_Witness ==
    \E s \in DOMAIN sessions :
        /\ sessions[s].pushed >= 12
        /\ Len(sessions[s].chatHistory) = 10
        /\ sessions[s].chatHistory[1].pos = sessions[s].pushed - 9
        /\ inflight # EmptyBag

\* C2: after n successive successful turns of one userId, starting from no
\* session, the history has length min(2n, 10) and is made of the min(n, 5)
\* most recent (user, assistant) pairs in order, the latest pair being the
\* message and the response of the turn just answered.
C2_SequentialHistory ==
    LET n == answered[DefaultUser]
        s == conversationHistories[DefaultUser]
    IN  n > 0 =>
          /\ s \in DOMAIN sessions
          /\ LET h == sessions[s].chatHistory
             IN  /\ Len(h) = Min(2 * n, 10)
                 /\ \A i \in 1..Len(h) :
                       /\ h[i].pos = 2 * n - Len(h) + i
                       /\ h[i].type = IF h[i].pos % 2 = 1 THEN "human" ELSE "ai"
                 /\ sent.status = 200 =>
                       /\ h[Len(h) - 1].content
                             = sent.messages[Len(sent.messages)].content
                       /\ h[Len(h)].content = sent.response.response

\* the eleventh successful turn has been answered
C2_Witness ==
    /\ answered[DefaultUser] = 11
    /\ sent.status = 200
    /\ Len(sessions[conversationHistories[DefaultUser]].chatHistory) = 10

C4_Original ==
    sent.status \in {200, 500} =>
        /\ constructed[DefaultUser] = 1
        /\ conversationHistories[DefaultUser] # 0

\* C4 amended: when the requests of one userId come one after another, at
\* most one session is ever constructed for it: the one of the first request
\* whose createNewUserSession succeeds; it stays the stored session, every
\* later request is served by that same object, and every answered turn was
\* served by it.  A request whose construction fails leaves no session.
C4_OneSessionReused ==
    LET u == DefaultUser
    IN  /\ constructed[u] <= 1
        /\ constructed[u] = 1 <=> conversationHistories[u] # 0
        /\ \A f \in Frames :
              /\ f.pc = "creating" => constructed[u] = 0
              /\ f.pc = "invoking" => f.userSession = conversationHistories[u]
        /\ answered[u] > 0 => constructed[u] = 1

\* the second turn answered by the one session
C4_Witness ==
    /\ answered[DefaultUser] >= 2
    /\ constructed[DefaultUser] = 1
    /\ sent.status = 200
    /\ sessions[conversationHistories[DefaultUser]].pushed = 2 * answered[DefaultUser]

\* the messages of a request are absent or empty, or the last one of them
\* has no content
C5_InvalidMessages(req) ==
    \/ ~Has(req, "messages")
    \/ Len(req.messages) = 0
    \/ ~Has(req.messages[Len(req.messages)], "content")
    \/ req.messages[Len(req.messages)].content = ""

\* C5: a request whose messages is absent or empty, or whose last message
\* has no content, is answered with 400 in the step that receives it; that
\* step changes no entry of the map and no session, constructs nothing and
\* calls no collaborator, and no handler of such a request is ever suspended
\* at a collaborator.
C5_InvalidRejected ==
    [][ /\ \A f \in BagToSet(inflight') : ~C5_InvalidMessages(f)
        /\ (sent'.status # 0 /\ C5_InvalidMessages(sent')) =>
              /\ sent'.status = 400
              /\ sent'.invokes = 0
              /\ sent'.pushes = 0
              /\ UNCHANGED <<conversationHistories, sessions, inflight,
                             constructed, answered>> ]_vars

\* a 400 sent while a session with a filter and a history exists
C5_Witness ==
    /\ sent.status = 400
    /\ C5_InvalidMessages(sent)
    /\ \E s \in DOMAIN sessions :
          sessions[s].filter # Undefined /\ Len(sessions[s].chatHistory) > 0

\* C6: the appliedFilter of a 200 response is {id: {$in: lessonIds}} of the
\* request it answers when that lessonIds is not empty, and is absent when
\* it is empty or omitted, whatever filter the session holds.
C6_AppliedFilter ==
    sent.status = 200 =>
        IF Len(sent.lessonIds) > 0
        THEN /\ Has(sent.response.debug, "appliedFilter")
             /\ sent.response.debug.appliedFilter = [id |-> [in |-> sent.lessonIds]]
        ELSE ~Has(sent.response.debug, "appliedFilter")

\* a 200 response without appliedFilter from a session that holds a filter
C6_Witness ==
    /\ sent.status = 200
    /\ sent.lessonIds = << >>
    /\ ~Has(sent.response.debug, "appliedFilter")
    /\ DOMAIN sessions # {}
    /\ \A s \in DOMAIN sessions : sessions[s].filter # Undefined

\* C7: when the agent's invocation fails, the request is answered with 500,
\* the agent was invoked once for it, it pushed nothing, and the step leaves
\* every session as it was.
C7_AgentFailure ==
    [][ \A f \in EndedFrames :
          (f.pc = "invoking" /\ sent'.status # 200) =>
            /\ sent'.status = 500
            /\ sent'.invokes = 1
            /\ sent'.pushes = 0
            /\ conversationHistories' = conversationHistories
            /\ \A s \in DOMAIN sessions' : sessions'[s] = sessions[s] ]_vars

\* a 500 after the agent was invoked, while every session has a history
C7_Witness ==
    /\ sent.status = 500
    /\ sent.invokes = 1
    /\ sent.pushes = 0
    /\ DOMAIN sessions # {}
    /\ \A s \in DOMAIN sessions : Len(sessions[s].chatHistory) > 0

\* C8: a userId that has an entry in the map has one in every later state.
C8_EntriesStay ==
    [][ \A u \in UserKeys :
          conversationHistories[u] # 0 => conversationHistories'[u] # 0 ]_vars

\* both userIds keep their entry when the agent of one of two overlapping
\* requests has just failed
C8_Witness ==
    /\ \A u \in UserKeys : conversationHistories[u] # 0
    /\ sent.status = 500
    /\ sent.invokes = 1
    /\ inflight # EmptyBag

----------------------------------------------------------------------------
(* Properties of the upsert handler *)

\* the string form of a supplied id
C9_StringForm(id) == IF id.t = "number" THEN NumToString(id.n) ELSE id.s

\* C9: a 200 response to a request that carries an id names that id in
\* string form, the record was written under it, and only a request without
\* id gets a generated one.
C9_SuppliedIdKept ==
    (up.pc = "done" /\ up.status = 200) =>
        IF Has(up.body, "id")
        THEN /\ up.response.id = C9_StringForm(up.body.id)
             /\ up.response.id \in DOMAIN vectors
        ELSE up.response.id = uuidv4(uuidCount)

\* C10: the metadata written by a successful upsert has content equal to
\* the request's original content, whatever metadata the caller supplied.
C10_ContentKept ==
    (up.pc = "done" /\ up.status = 200) =>
        /\ up.response.id \in DOMAIN vectors
        /\ vectors[up.response.id].metadata.content = up.body.content.s

\* the content of an upsert request is missing, not a string, or empty
C11_InvalidContent(body) ==
    \/ ~Has(body, "content")
    \/ body.content.t # "string"
    \/ Len(body.content.s) = 0

\* C11: an upsert request whose content is missing, the empty string or not
\* a string is answered with 400, and neither the embedding collaborator nor
\* the vector store has been called for it.
C11_InvalidContentRejected ==
    (up.pc # "idle" /\ C11_InvalidContent(up.body)) =>
        /\ up.pc = "done"
        /\ up.status = 400
        /\ up.embeds = 0
        /\ up.writes = 0

\* a request with a number as content has been answered with 400 after an
\* earlier request was stored
C11_Witness ==
    /\ up.pc = "done"
    /\ up.status = 400
    /\ Has(up.body, "content")
    /\ up.body.content.t = "number"
    /\ DOMAIN vectors # {}

\* the content is a string of whitespace only
C12_OnlyWhitespace(body) ==
    /\ Has(body, "content")
    /\ body.content.t = "string"
    /\ Len(body.content.s) > 0
    /\ \A i \in 1..Len(body.content.s) : body.content.s[i] \in {" ", "\n"}

C12_Calls ==
    up.pc # "idle" =>
        /\ up.embeds <= 1
        /\ up.writes <= 1
        /\ up.writes = 1 => (up.embeds = 1 /\ up.pc \in {"upserting", "done"})
        /\ (up.pc = "done" /\ up.status = 200) =>
              (up.writes = 1 /\ up.response.id \in DOMAIN vectors)
        /\ C12_OnlyWhitespace(up.body) =>
              (up.pc = "done" /\ up.status = 500 /\ up.embeds = 0 /\ up.writes = 0)
        /\ (up.pc = "done" /\ up.status = 500) => ~Has(up.response, "id")

\* C12: an upsert request calls the embedding collaborator and the vector
\* store at most once each, the store only after the embedding arrived, and
\* exactly once when it ends with 200; whitespace-only content ends with 500
\* without an embedding call; a 500 reports no record, and the store changes
\* only in the step that ends a request with 200.
C12_OneWriteAfterEmbedding ==
    /\ []C12_Calls
    /\ [][ vectors' # vectors =>
             (up.pc = "upserting" /\ up'.pc = "done" /\ up'.status = 200) ]_vars

\* the write of a request failed after an earlier request was stored
C12_Witness ==
    /\ up.pc = "done"
    /\ up.status = 500
    /\ up.embeds = 1
    /\ up.writes = 1
    /\ DOMAIN vectors # {}

----------------------------------------------------------------------------
(* Further properties of the chat handler *)

\* C13: while the agent of a request with non-empty lessonIds runs, and so
\* whenever it retrieves, the filter of the session's retriever is that
\* request's {id: {$in: lessonIds}}, also while other requests of the same
\* userId are in flight.
C13_FilterOfRequest ==
    \A f \in Frames :
        (f.pc = "invoking" /\ Len(f.lessonIds) > 0) =>
            sessions[f.userSession].filter = [id |-> [in |-> f.lessonIds]]

\* C14: when the requests of one userId overlap, a request can construct a
\* session although another one is being or has been constructed.  The
\* session constructed last becomes the stored one, the earlier one stays
\* with the handler that constructed it, and the turn of a handler whose
\* session is no longer the stored one is answered without any change to the
\* stored session.
C14_CreationRace ==
    [][ /\ \A u \in UserKeys :
              constructed'[u] # constructed[u] =>
                /\ constructed'[u] = constructed[u] + 1
                /\ conversationHistories'[u] # conversationHistories[u]
                /\ conversationHistories'[u] \notin DOMAIN sessions
                /\ sessions'[conversationHistories'[u]].chatHistory = << >>
                /\ \A s \in DOMAIN sessions \cap DOMAIN sessions' :
                      sessions'[s] = sessions[s]
        /\ \A f \in EndedFrames :
              ( /\ f.pc = "invoking"
                /\ f.userSession # conversationHistories[f.userId]
                /\ sent'.status = 200 ) =>
                /\ constructed[f.userId] >= 2
                /\ sent'.pushes = 2
                /\ conversationHistories' = conversationHistories
                /\ sessions'[conversationHistories[f.userId]]
                      = sessions[conversationHistories[f.userId]] ]_vars

\* two sessions were constructed for the userId and both turns were answered,
\* but the stored session holds the pair of one turn only
C14_Witness ==
    /\ constructed[DefaultUser] = 2
    /\ answered[DefaultUser] = 2
    /\ inflight = EmptyBag
    /\ sent.status = 200
    /\ sessions[conversationHistories[DefaultUser]].pushed = 2
    /\ Len(sessions[conversationHistories[DefaultUser]].chatHistory) = 2

\* the frames of the handlers that call the agent in a step
C15_Called ==
    { f \in BagToSet(inflight') :
        /\ f.pc = "invoking"
        /\ CopiesIn(f, inflight') > CopiesIn(f, inflight) }

\* no history holds an element of a request's messages other than the last
C15_NoEarlierMessages ==
    \A s \in DOMAIN sessions :
        \A i \in 1..Len(sessions[s].chatHistory) :
            sessions[s].chatHistory[i].content \notin {"first", "reply"}

\* C15: the agent is invoked with the content of the last element of the
\* request's messages, and the step that calls it leaves the history it
\* passes as it was; a history changes only in the step in which an
\* invocation returns, which appends to what was there the user entry of the
\* returning turn and then the assistant entry with the response sent;
\* earlier elements of the messages never enter a history.
C15_InvokeThenRecord ==
    /\ []C15_NoEarlierMessages
    /\ [][ /\ \A f \in C15_Called :
                 /\ f.invokes = 1
                 /\ f.userMessage = f.messages[Len(f.messages)].content
                 /\ sessions'[f.userSession].chatHistory =
                       IF f.userSession \in DOMAIN sessions
                       THEN sessions[f.userSession].chatHistory
                       ELSE << >>
           /\ \A s \in DOMAIN sessions \cap DOMAIN sessions' :
                 sessions'[s].chatHistory # sessions[s].chatHistory =>
                    \E f \in EndedFrames :
                       /\ f.pc = "invoking"
                       /\ f.userSession = s
                       /\ sent'.status = 200
                       /\ LET old == sessions[s].chatHistory
                              new == sessions'[s].chatHistory
                              n == Len(new)
                          IN  /\ n >= 2
                              /\ new[n - 1] =
                                    [type |-> "human",
                                     content |-> f.messages[Len(f.messages)].content,
                                     pos |-> sessions[s].pushed + 1]
                              /\ new[n] =
                                    [type |-> "ai",
                                     content |-> sent'.response.response,
                                     pos |-> sessions[s].pushed + 2]
                              /\ n - 2 <= Len(old)
                              /\ \A i \in 1..(n - 2) :
                                    new[i] = old[Len(old) - (n - 2) + i] ]_vars

\* the sixth turn of a session has been recorded after its response, and the
\* pair of the first turn dropped
C15_Witness ==
    /\ sent.status = 200
    /\ \E s \in DOMAIN sessions :
          LET h == sessions[s].chatHistory
          IN  /\ sessions[s].pushed = 12
              /\ Len(h) = 10
              /\ h[9] = [type |-> "human", content |-> "more", pos |-> 11]
              /\ h[10].type = "ai"
              /\ h[10].content = sent.response.response

\* C16: when the agent returns an empty output or none, the request is still
\* answered with 200, the response text is the fixed fallback string, and
\* that string is the assistant entry recorded last in the history.
C16_FallbackRecorded ==
    (sent.status = 200 /\ Get(sent.result, "output", "") = "") =>
        LET h == sessions[conversationHistories[DefaultUser]].chatHistory
        IN  /\ sent.response.response
                  = "I couldn't generate a response. Please try again."
            /\ h[Len(h)].type = "ai"
            /\ h[Len(h)].content
                  = "I couldn't generate a response. Please try again."
            /\ h[Len(h) - 1].type = "human"

\* a later turn whose agent returned no output at all has been answered
C16_Witness ==
    /\ sent.status = 200
    /\ ~Has(sent.result, "output")
    /\ answered[DefaultUser] >= 2
    /\ sent.response.response = Fallback

\* C17: the appliedFilter of a 200 response is the filter the session's
\* retriever holds for that turn, and is absent exactly when the retriever
\* holds none.
C17_AppliedIsSessionFilter ==
    sent.status = 200 =>
        LET held == sessions[conversationHistories[DefaultUser]].filter
        IN  IF held = Undefined
            THEN ~Has(sent.response.debug, "appliedFilter")
            ELSE /\ Has(sent.response.debug, "appliedFilter")
                 /\ sent.response.debug.appliedFilter = held

\* C18: in every reachable state, also while handlers of one userId overlap,
\* every history has even length and alternates user and assistant entries
\* starting with a user entry, and each assistant entry was pushed directly
\* after the user entry before it, as the second message of the same turn.
C18_AlternatingPairs ==
    \A s \in DOMAIN sessions :
        LET h == sessions[s].chatHistory
        IN  /\ Len(h) % 2 = 0
            /\ \A i \in 1..Len(h) :
                  IF i % 2 = 1
                  THEN h[i].type = "human" /\ h[i].pos % 2 = 1
                  ELSE h[i].type = "ai" /\ h[i].pos = h[i - 1].pos + 1

\* a trimmed history of a userId for which two sessions were constructed
C18_Witness ==
    /\ constructed[DefaultUser] >= 2
    /\ \E s \in DOMAIN sessions :
          LET h == sessions[s].chatHistory
          IN  /\ sessions[s].pushed >= 12
              /\ Len(h) = 10
              /\ h[1].type = "human"
              /\ h[10].type = "ai"

\* the userIds of the handlers that take a step
C19_ActingUsers ==
    { f.userId : f \in { g \in BagToSet(inflight) \cup BagToSet(inflight') :
                           CopiesIn(g, inflight) # CopiesIn(g, inflight') } }

\* a handler whose request gave no userId works under the key "default-user",
\* and, as long as one session was constructed for that key, on the session
\* stored under it
C19_DefaultKey ==
    \A f \in Frames :
        /\ ~f.named => f.userId = "default-user"
        /\ (f.pc = "invoking" /\ constructed[f.userId] <= 1) =>
              f.userSession = conversationHistories[f.userId]

====
